---------------------------- MODULE Spec2Model ----------------------------
(***************************************************************************)
(* Model of the Gmail client: the Streamlit presentation script (app.py),  *)
(* the direct-credential transport (gmail_service.py, IMAP/SMTP) and the   *)
(* delegated-authorization transport (oauth_service.py, Gmail API).        *)
(*                                                                         *)
(* Python values are modelled as follows: None is the string NONE, a str   *)
(* is a TLA+ string (the empty str is ""), a list is a sequence, a dict is *)
(* a record.  A message body is a sequence of characters.                  *)
(***************************************************************************)
EXTENDS Integers, Sequences, FiniteSets, TLC

VARIABLES
    \* st.session_state (app.py init_session_state)
    logged_in, email, password, current_page, auth_method, oauth_credentials,
    email_page, emails_per_page,
    \* st.query_params: the authorization code of the callback URL, or NONE
    query_code,
    \* TRUE while a script run without a widget event is queued (first load, st.rerun())
    rerun,
    \* get_oauth_credentials() returned a client id and secret (and OAUTH_AVAILABLE)
    oauth_configured,
    \* inbox_page locals of the last render: the fetched batch and the page shown
    all_emails, view,
    \* the transport call made by the last script run
    call,
    \* the widget event the last script run handled, with the page number and
    \* the credential tag the session had when it arrived
    event,
    \* the provider: access tokens issued so far, and those that have expired
    issued, expired,
    \* a Credentials object, its session dict is oauth_credentials, and the
    \* Credentials object rebuilt from the dict
    cred_in, cred_out,
    \* a decoded message body and the preview made of it
    body, preview,
    \* the provider's inbox (raw messages, oldest first: message i has the
    \* IMAP sequence number i), the count a list request asks for, and the
    \* result of that request
    mailbox, count, fetched,
    \* two runs of one Transport A operation with the same address against
    \* the same server behaviour, one for each of two secrets
    runs

NONE == "None"

Min(a, b) == IF a < b THEN a ELSE b
Max(a, b) == IF a > b THEN a ELSE b

\* Python's Optional[dict]: None is <<>>, a dict d is <<d>>
NoValue == <<>>
Some(x) == <<x>>
\* truth value of `st.session_state.oauth_credentials` (a stored dict has six keys)
Truthy(opt) == opt # NoValue

(***************************************************************************)
(* Bounds of the model.                                                    *)
(***************************************************************************)
\* longest batch handed to the page computation
MaxBatchLen == 101
\* largest page number handed to the page computation
MaxReqPage == 12
\* the inboxes the provider holds in the application runs: 0, InboxStep,
\* 2 * InboxStep, ... up to MaxInboxSteps * InboxStep messages
InboxStep == 5
MaxInboxSteps == 7
\* access tokens the provider issues in one run of the model
MaxTokens == 2
\* longest scope list of a credential
MaxScopes == 2
\* longest message body, counted beyond the preview limit
MaxBodyExtra == 5
\* most messages in the inbox of a list request, and the largest count asked
MaxMailbox == 3
MaxCount == 4
\* longest raw Date header, counted beyond the 20 characters kept of it
MaxDateExtra == 7
\* page numbers below 1 that the application runs follow
MaxPagesBelow == 1

(***************************************************************************)
(* Pagination (app.py inbox_page, lines 614-668).                          *)
(***************************************************************************)
\* options of the "Emails per page" selectbox
PageSizes == {10, 25, 50, 100}

\* a fetched batch of n messages, newest first: the message ids n, n-1, .., 1
Batch(n) == [i \in 1..n |-> n + 1 - i]

\* Python's s[a:b] for a list s and integers a, b (negative indices count
\* from the end, out-of-range indices are clipped)
PyIndex(len, i) == IF i < 0 THEN Max(len + i, 0) ELSE Min(i, len)
PySlice(s, a, b) == SubSeq(s, PyIndex(Len(s), a) + 1, PyIndex(Len(s), b))

\* the page count rounded down: total_emails // per_page
TotalPagesFloor(total_emails, per_page) == total_emails \div per_page
\* total_pages = (total_emails + per_page - 1) // per_page
TotalPages(total_emails, per_page) == (total_emails + per_page - 1) \div per_page

\* "Ensure current page is valid": if current_page > total_pages: current_page = total_pages
ClampPage(page, total_pages) == IF page > total_pages THEN total_pages ELSE page

\* what the last run of inbox_page rendered: nothing (kind "none"), the fetch
\* error ("error"), the empty-inbox notice ("empty") or a page ("page") with
\* the session's page number it read (requested) and the locals of lines 655-668
NoView == [kind |-> "none", requested |-> 0, current_page |-> 0, total_pages |-> 0,
           total_emails |-> 0, start_idx |-> 0, end_idx |-> 0, emails |-> <<>>]
ErrorView == [NoView EXCEPT !.kind = "error"]
EmptyView == [NoView EXCEPT !.kind = "empty"]
PageView(batch, page, per_page) ==
    LET total_emails == Len(batch)
        total_pages == TotalPages(total_emails, per_page)
        cur == ClampPage(page, total_pages)
        start_idx == (cur - 1) * per_page
        end_idx == Min(start_idx + per_page, total_emails)
    IN  [kind |-> "page", requested |-> page,
         current_page |-> cur, total_pages |-> total_pages,
         total_emails |-> total_emails,
         start_idx |-> start_idx, end_idx |-> end_idx,
         emails |-> PySlice(batch, start_idx, end_idx)]

\* lines 649-668: the "inbox is empty" notice for an empty batch, a page otherwise
RenderBatch(batch, page, per_page) ==
    IF batch = <<>> THEN EmptyView ELSE PageView(batch, page, per_page)

\* st.session_state.email_page after the render (line 663 writes the clamped page back)
PageAfterRender(batch, page, per_page) ==
    IF batch = <<>> THEN page ELSE ClampPage(page, TotalPages(Len(batch), per_page))

(***************************************************************************)
(* Credential model (oauth_service.py, lines 254-275).                     *)
(***************************************************************************)
GoogleTokenUri == "https://oauth2.googleapis.com/token"

\* dict.get(key, default)
DictGet(d, key, default) == IF key \in DOMAIN d THEN d[key] ELSE default

\* a dict that leaves the refresh token out
CredentialsToDictNoRefresh(credentials) ==
    [token |-> credentials.token,
     refresh_token |-> NONE,
     token_uri |-> credentials.token_uri,
     client_id |-> credentials.client_id,
     client_secret |-> credentials.client_secret,
     scopes |-> IF credentials.scopes # <<>> THEN credentials.scopes ELSE <<>>]
\* credentials_to_dict: `list(credentials.scopes) if credentials.scopes else []`
\* (the scopes of a Credentials object of this program are a list)
CredentialsToDict(credentials) ==
    [token |-> credentials.token,
     refresh_token |-> credentials.refresh_token,
     token_uri |-> credentials.token_uri,
     client_id |-> credentials.client_id,
     client_secret |-> credentials.client_secret,
     scopes |-> IF credentials.scopes # <<>> THEN credentials.scopes ELSE <<>>]

\* credentials_from_dict: Credentials(token=..., ...); the constructor's
\* other arguments keep their defaults, so the object has no expiry
CredentialsFromDict(creds_dict) ==
    [token |-> creds_dict.token,
     refresh_token |-> DictGet(creds_dict, "refresh_token", NONE),
     token_uri |-> DictGet(creds_dict, "token_uri", GoogleTokenUri),
     client_id |-> DictGet(creds_dict, "client_id", NONE),
     client_secret |-> DictGet(creds_dict, "client_secret", NONE),
     scopes |-> DictGet(creds_dict, "scopes", <<>>),
     expiry |-> NONE]

(***************************************************************************)
(* Body preview (gmail_service.py line 98, oauth_service.py line 196).     *)
(***************************************************************************)
\* the literal 500 of get_email_body and of fetch_emails_oauth
BodyLimit == 500
SnippetLimit == 500
Ellipsis == <<".", ".", ".">>

\* a truncation that also marks a body of exactly 500 characters
GetEmailBodyAtLimit(text) ==
    IF Len(text) >= BodyLimit THEN PySlice(text, 0, BodyLimit) \o Ellipsis ELSE text
\* get_email_body: `return body[:500] + "..." if len(body) > 500 else body`
GetEmailBody(text) ==
    IF Len(text) > BodyLimit THEN PySlice(text, 0, BodyLimit) \o Ellipsis ELSE text

\* fetch_emails_oauth: `snippet[:500] + '...' if len(snippet) > 500 else snippet`
SnippetBody(snippet) ==
    IF Len(snippet) > SnippetLimit THEN PySlice(snippet, 0, SnippetLimit) \o Ellipsis
    ELSE snippet

NoPreview == [transport |-> "none", times |-> 0, first |-> <<>>, text |-> <<>>]

\* the result of a list request: the transport, the success flag, the list
\* of message dicts (empty on failure) and the error message ("none" on success)
NoFetch == [transport |-> "none", ok |-> FALSE, emails |-> <<>>, error |-> "none"]

(***************************************************************************)
(* State tuples and idle values.                                           *)
(***************************************************************************)
\* a transport call: the operation and transport, the credential tag the
\* dispatch read, the credential handed over (address and secret, or the
\* Credentials object), the access token the request finally carried and
\* whether it was renewed, the recipient of a send, the result, and the
\* state of the connection the operation opened ("none" when it opened none)
\* It also records what the provider did (outcome), the protocol commands the
\* operation issued, in order (steps), whether an exception left the operation
\* instead of a result (raised), the lines it printed (log), and the other
\* core operations the script run called, in order (aux).
NoCall == [op |-> "none", transport |-> "none", tag |-> NONE, address |-> "",
           secret |-> "", creds |-> NoValue, token |-> 0, refreshed |-> FALSE,
           to |-> "", success |-> FALSE, message |-> "none", conn |-> "none",
           outcome |-> "none", steps |-> <<>>, raised |-> FALSE, log |-> <<>>,
           aux |-> <<>>]
NoEvent == [name |-> "none", page |-> 0, tag |-> NONE]

sessionVars == <<logged_in, email, password, current_page, auth_method, oauth_credentials>>
pageVars == <<email_page, emails_per_page>>
browserVars == <<query_code, rerun, oauth_configured>>
inboxVars == <<all_emails, view, event>>
providerVars == <<issued, expired>>
credVars == <<cred_in, cred_out>>
bodyVars == <<body, preview>>
fetchVars == <<mailbox, count, fetched>>
secretVars == <<runs>>
vars == <<logged_in, email, password, current_page, auth_method, oauth_credentials,
          email_page, emails_per_page, query_code, rerun, oauth_configured,
          all_emails, view, call, event, issued, expired, cred_in, cred_out,
          body, preview, mailbox, count, fetched, runs>>

\* init_session_state: the defaults of a fresh session
SessionDefaults ==
    /\ logged_in = FALSE
    /\ email = ""
    /\ password = ""
    /\ current_page = "inbox"
    /\ auth_method = NONE
    /\ oauth_credentials = NoValue
    /\ email_page = 1
    /\ emails_per_page = 25

BrowserIdle == query_code = NONE /\ rerun = FALSE /\ oauth_configured = FALSE
InboxIdle == all_emails = <<>> /\ view = NoView /\ call = NoCall /\ event = NoEvent
ProviderIdle == issued = 0 /\ expired = {}
CredIdle == cred_in = NoValue /\ cred_out = NoValue
BodyIdle == body = <<>> /\ preview = NoPreview
FetchIdle == mailbox = <<>> /\ count = 0 /\ fetched = NoFetch
SecretIdle == runs = <<>>

(***************************************************************************)
(* try / except.  An exception is named by its class ("none": nothing was  *)
(* raised); the except clauses of a try statement are the list of the      *)
(* classes they name, in their order.                                      *)
(***************************************************************************)
\* `except handler` catches exc: the class itself, or Exception, the base of
\* every exception class that occurs in the model
Catches(handler, exc) == handler = exc \/ handler = "Exception"

\* the index of the except clause that handles exc, 0 when none does
HandlerOf(handlers, exc) ==
    IF \E i \in DOMAIN handlers : Catches(handlers[i], exc)
    THEN CHOOSE i \in DOMAIN handlers :
            /\ Catches(handlers[i], exc)
            /\ \A j \in 1..(i - 1) : ~Catches(handlers[j], exc)
    ELSE 0

\* the class named by the except clause that handles exc ("none": no clause)
HandlerClass(handlers, exc) ==
    IF HandlerOf(handlers, exc) = 0 THEN "none" ELSE handlers[HandlerOf(handlers, exc)]

\* the exception leaves the try statement
Propagates(handlers, exc) == exc # "none" /\ HandlerOf(handlers, exc) = 0

(***************************************************************************)
(* Transport A (gmail_service.py): IMAP and SMTP.  The server's behaviour  *)
(* is an outcome o; each operation is the code's path for that outcome.    *)
(***************************************************************************)
\* The characters of a str are not visible to the model; the secrets that
\* hold a character outside ASCII are listed here with that character (named
\* by its code point) and its position, as str() of the UnicodeEncodeError
\* that bytes(arg, 'ascii') raises in imaplib and smtplib names them.
FirstNonAscii(text) ==
    CASE text = "p[U+00E4]ssword" -> <<"U+00E4", "1">>
      [] text = "pas[U+00F1]word" -> <<"U+00F1", "3">>
      [] OTHER -> <<>>
IsAscii(text) == FirstNonAscii(text) = <<>>

\* str(e) of the exception exc raised for the secret and the server's answer
ExceptionText(exc, app_password, o) ==
    IF exc = "UnicodeEncodeError" THEN FirstNonAscii(app_password) ELSE <<o>>

\* where an IMAP login attempt can end: IMAP4_SSL() raises, login() raises
\* IMAP4.error with AUTHENTICATIONFAILED, login() raises another IMAP4.error,
\* login() raises another exception, or the login is accepted
ImapLoginOutcomes == {"connect_error", "auth_failed", "imap_error", "io_error", "ok"}

\* the exception raised in the try block of authenticate: login() encodes the
\* secret before it sends anything
AuthenticateException(app_password, o) ==
    IF o = "connect_error" THEN "OSError"
    ELSE IF ~IsAscii(app_password) THEN "UnicodeEncodeError"
    ELSE IF o \in {"auth_failed", "imap_error"} THEN "IMAP4.error"
    ELSE IF o = "io_error" THEN "OSError"
    ELSE "none"

\* except clauses that leave every other exception to the caller
AuthenticateHandlersImapOnly == <<"IMAP4.error">>
\* the except clauses of authenticate, lines 41 and 48
AuthenticateHandlers == <<"IMAP4.error", "Exception">>

\* the print() calls of authenticate, lines 35-49
AuthenticateLog(email_address, app_password, o) ==
    LET exc == AuthenticateException(app_password, o)
        handler == HandlerClass(AuthenticateHandlers, exc)
    IN  <<  <<"[DEBUG] Attempting to connect to", "imap.gmail.com">>  >>
        \o (IF o # "connect_error"
            THEN <<  <<"[DEBUG] Connected! Attempting login for:", email_address>>  >>
            ELSE <<>>)
        \o (CASE exc = "none" -> <<  <<"[DEBUG] Login successful!">>  >>
              [] handler = "IMAP4.error" -> <<  <<"[DEBUG] IMAP Error:", o>>  >>
              [] handler = "Exception" ->
                    <<  <<"[DEBUG] Exception:", exc>> \o ExceptionText(exc, app_password, o)  >>
              [] OTHER -> <<>>)

\* a handler that gives every IMAP error the same message
AuthenticateMessageNoGuidance(handler, o) ==
    CASE handler = "IMAP4.error" -> "Authentication failed"
      [] handler = "Exception" -> "Connection error"
      [] OTHER -> "none"
\* the message of the except clause that handled the exception, lines 42-50
AuthenticateMessage(handler, o) ==
    CASE handler = "IMAP4.error" /\ o = "auth_failed" -> "Please use an App Password"
      [] handler = "IMAP4.error" /\ o # "auth_failed" -> "Authentication failed"
      [] handler = "Exception" -> "Connection error"
      [] OTHER -> "none"

\* authenticate: imap.logout() is reached only after an accepted login; the
\* except clauses return without closing the connection
Authenticate(email_address, app_password, o) ==
    LET exc == AuthenticateException(app_password, o)
        handler == HandlerClass(AuthenticateHandlers, exc)
    IN  [NoCall EXCEPT
            !.op = "authenticate", !.transport = "A",
            !.address = email_address, !.secret = app_password,
            !.outcome = o,
            !.raised = Propagates(AuthenticateHandlers, exc),
            !.success = (exc = "none"),
            !.message = IF exc = "none" THEN "Authentication successful!"
                        ELSE AuthenticateMessage(handler, o),
            !.conn = CASE exc = "none" -> "closed"
                       [] exc # "none" /\ o = "connect_error" -> "none"
                       [] OTHER -> "open",
            !.steps = <<"connect">>
                      \o (IF o # "connect_error" THEN <<"login">> ELSE <<>>)
                      \o (IF exc = "none" THEN <<"logout">> ELSE <<>>),
            !.log = AuthenticateLog(email_address, app_password, o)]

\* where fetch_emails can end: IMAP4_SSL() raises, login() raises, search
\* answers a status other than OK, a later command raises, or all succeed
ImapFetchOutcomes == {"connect_error", "login_error", "search_failed", "imap_error", "ok"}

\* the exception raised in the try block of fetch_emails
FetchEmailsException(app_password, o) ==
    IF o = "connect_error" THEN "OSError"
    ELSE IF ~IsAscii(app_password) THEN "UnicodeEncodeError"
    ELSE IF o \in {"login_error", "imap_error"} THEN "IMAP4.error"
    ELSE "none"

\* the except clauses of fetch_emails, lines 166 and 168
FetchEmailsHandlers == <<"IMAP4.error", "Exception">>

\* the IMAP commands of fetch_emails in the order of lines 116-163 ("fetch"
\* is the loop of lines 132-161), and the command each outcome stops at
ImapFetchSteps == <<"connect", "login", "select", "search", "fetch", "logout">>
ImapFetchLastStep(exc, o) ==
    CASE o = "connect_error" -> 1
      [] o # "connect_error" /\ exc = "UnicodeEncodeError" -> 2
      [] exc # "UnicodeEncodeError" /\ o = "login_error" -> 2
      [] exc # "UnicodeEncodeError" /\ o = "search_failed" -> 4
      [] exc # "UnicodeEncodeError" /\ o = "imap_error" -> 5
      [] OTHER -> 6

\* fetch_emails: imap.logout() is on the success path only (line 163)
FetchEmails(email_address, app_password, o) ==
    LET exc == FetchEmailsException(app_password, o)
        handler == HandlerClass(FetchEmailsHandlers, exc)
    IN  [NoCall EXCEPT
            !.op = "fetch", !.transport = "A",
            !.address = email_address, !.secret = app_password,
            !.outcome = o,
            !.raised = Propagates(FetchEmailsHandlers, exc),
            !.success = (exc = "none" /\ o = "ok"),
            !.message = CASE exc = "none" /\ o = "ok" -> "emails"
                          [] exc = "none" /\ o # "ok" -> "Failed to fetch emails"
                          [] handler = "IMAP4.error" -> "IMAP error"
                          [] handler = "Exception" -> "Error fetching emails"
                          [] OTHER -> "none",
            !.conn = CASE exc = "none" /\ o = "ok" -> "closed"
                       [] exc # "none" /\ o = "connect_error" -> "none"
                       [] OTHER -> "open",
            !.steps = SubSeq(ImapFetchSteps, 1, ImapFetchLastStep(exc, o))]

\* where send_email can end: SMTP() raises, starttls() raises, login() raises
\* SMTPAuthenticationError, send_message() raises SMTPRecipientsRefused,
\* send_message() raises another exception, or all succeed
SmtpOutcomes == {"connect_error", "starttls_error", "auth_error", "recipients_refused",
                 "send_error", "ok"}

\* the exception raised in the try block of send_email
SendEmailException(app_password, o) ==
    IF o = "connect_error" THEN "OSError"
    ELSE IF o = "starttls_error" THEN "SMTPException"
    ELSE IF ~IsAscii(app_password) THEN "UnicodeEncodeError"
    ELSE IF o = "auth_error" THEN "SMTPAuthenticationError"
    ELSE IF o = "recipients_refused" THEN "SMTPRecipientsRefused"
    ELSE IF o = "send_error" THEN "SMTPException"
    ELSE "none"

\* the except clauses of send_email, lines 209, 211 and 213
SendEmailHandlers == <<"SMTPAuthenticationError", "SMTPRecipientsRefused", "Exception">>

\* an order that logs in before the connection is encrypted
SmtpStepsLoginFirst == <<"connect", "login", "starttls", "send_message", "quit">>
\* the SMTP commands of send_email in the order of lines 201-205
SmtpSteps == <<"connect", "starttls", "login", "send_message", "quit">>

\* the statement of lines 201-205 in which the exception is raised (5: in none)
SmtpLastStep(exc, o) ==
    CASE o = "connect_error" -> 1
      [] o = "starttls_error" -> 2
      [] o \notin {"connect_error", "starttls_error"}
         /\ exc \in {"UnicodeEncodeError", "SMTPAuthenticationError"} -> 3
      [] exc \in {"SMTPRecipientsRefused", "SMTPException"}
         /\ o \in {"recipients_refused", "send_error"} -> 4
      [] OTHER -> 5

\* send_email: server.quit() is on the success path only (line 205)
SendEmail(email_address, app_password, to, o) ==
    LET exc == SendEmailException(app_password, o)
        handler == HandlerClass(SendEmailHandlers, exc)
    IN  [NoCall EXCEPT
            !.op = "send", !.transport = "A",
            !.address = email_address, !.secret = app_password, !.to = to,
            !.outcome = o,
            !.raised = Propagates(SendEmailHandlers, exc),
            !.success = (exc = "none"),
            !.message = CASE exc = "none" -> "Email sent successfully!"
                          [] handler = "SMTPAuthenticationError" ->
                                "Authentication failed: Invalid credentials"
                          [] handler = "SMTPRecipientsRefused" ->
                                "Failed: Invalid recipient email address"
                          [] handler = "Exception" -> "Failed to send email"
                          [] OTHER -> "none",
            !.conn = CASE exc = "none" -> "closed"
                       [] exc # "none" /\ o = "connect_error" -> "none"
                       [] OTHER -> "open",
            !.steps = SubSeq(SmtpSteps, 1, SmtpLastStep(exc, o))]

(***************************************************************************)
(* Transport B (oauth_service.py): the Gmail API.  A request carries the   *)
(* access token of the Credentials object; when the provider answers that  *)
(* the token has expired the client library renews it with the refresh     *)
(* token, on that Credentials object, and repeats the request.             *)
(***************************************************************************)
\* SCOPES
SCOPES == <<"gmail.readonly", "gmail.send", "userinfo.email", "openid">>

\* the provider accepts an access token it issued that has not expired
TokenAccepted(token, n_issued, expired_tokens) ==
    token \in 1..n_issued /\ token \notin expired_tokens

\* the request needs a renewal, and the credential allows one
NeedsRefresh(credentials, n_issued, expired_tokens) ==
    ~TokenAccepted(credentials.token, n_issued, expired_tokens)
CanRefresh(credentials) == credentials.refresh_token # NONE

\* the access token the request carries in the end (0: none, the renewal failed)
TokenUsed(credentials, n_issued, expired_tokens) ==
    IF ~NeedsRefresh(credentials, n_issued, expired_tokens) THEN credentials.token
    ELSE IF CanRefresh(credentials) THEN n_issued + 1 ELSE 0

\* tokens issued after the call
IssuedAfter(credentials, n_issued, expired_tokens) ==
    IF NeedsRefresh(credentials, n_issued, expired_tokens) /\ CanRefresh(credentials)
    THEN n_issued + 1 ELSE n_issued

ApiOutcomes == {"api_error", "ok"}

\* the exception raised in the try block of a Transport B operation: the
\* renewal failed (token 0), or the API answered with an error
ApiException(token, o) ==
    IF token = 0 THEN "RefreshError"
    ELSE IF o = "api_error" THEN "HttpError"
    ELSE "none"

\* the except clauses of fetch_emails_oauth (lines 201, 203) and of
\* send_email_oauth (lines 248, 250)
ApiHandlers == <<"HttpError", "Exception">>

\* the part of a Transport B call that the two operations share
ApiCall(op, credentials, o, n_issued, expired_tokens) ==
    LET token == TokenUsed(credentials, n_issued, expired_tokens) IN
    [NoCall EXCEPT
        !.op = op, !.transport = "B", !.creds = Some(credentials),
        !.token = token,
        !.refreshed = (NeedsRefresh(credentials, n_issued, expired_tokens)
                       /\ CanRefresh(credentials)),
        !.outcome = o,
        !.raised = Propagates(ApiHandlers, ApiException(token, o)),
        !.success = (ApiException(token, o) = "none")]

\* a core operation that is not a transport call, as the script run sees it:
\* its result ("none" when an exception left it instead) and that exception
CoreOp(op, handlers, exc) ==
    [op |-> op,
     result |-> IF exc = "none" THEN "success"
                ELSE IF Propagates(handlers, exc) THEN "none" ELSE "failure",
     raised |-> Propagates(handlers, exc)]

\* exchange_code_for_credentials: the whole body is in a try with `except Exception`
ExchangeCode(x) ==
    CoreOp("exchange_code_for_credentials", <<"Exception">>,
           IF x = "ok" THEN "none" ELSE "OAuth2Error")

\* get_user_email: `except Exception: return 'Unknown'`
GetUserEmail(address) ==
    CoreOp("get_user_email", <<"Exception">>,
           IF address = "Unknown" THEN "HttpError" ELSE "none")

\* get_authorization_url has no try statement; it builds the URL from the
\* client configuration and asks the provider nothing
GetAuthorizationUrl == CoreOp("get_authorization_url", <<>>, "none")

\* credentials_from_dict has no try statement; creds_dict['token'] raises
\* KeyError for a dict without that key
CredentialsFromDictOp(creds_dict) ==
    CoreOp("credentials_from_dict", <<>>,
           IF "token" \in DOMAIN creds_dict THEN "none" ELSE "KeyError")

\* fetch_emails_oauth
FetchEmailsOAuth(credentials, o, n_issued, expired_tokens) ==
    LET c == ApiCall("fetch", credentials, o, n_issued, expired_tokens) IN
    [c EXCEPT !.message = IF c.success THEN "emails"
                          ELSE IF c.token = 0 THEN "Error fetching emails"
                          ELSE "Gmail API error"]

\* send_email_oauth
SendEmailOAuth(credentials, to, o, n_issued, expired_tokens) ==
    LET c == ApiCall("send", credentials, o, n_issued, expired_tokens) IN
    [c EXCEPT !.to = to,
              !.message = IF c.success THEN "Email sent successfully!"
                          ELSE IF c.token = 0 THEN "Failed to send email"
                          ELSE "Gmail API error"]

(***************************************************************************)
(* Message lists (gmail_service.py lines 53-161, oauth_service.py lines    *)
(* 150-199).  A text is a sequence of characters; a header that this model *)
(* only tells apart by what decoding does to it is named by its kind.      *)
(***************************************************************************)
\* the literal 20 of fetch_emails and the literal 25 of fetch_emails_oauth
DateLimit == 20
ApiDateLimit == 25

Chars == <<"0", "1", "2", "3", "4", "5", "6", "7", "8", "9">>
\* a text of len characters, no two neighbours alike
Text(len) == [i \in 1..len |-> Chars[(i % 10) + 1]]

\* the str 'Unknown'
Unknown == <<"U", "n", "k", "n", "o", "w", "n">>

\* the raw messages of the model: each kind departs from "plain" in one way
MessageKinds ==
    {"plain", "no_headers", "encoded_subject", "unknown_charset", "malformed_subject",
     "bad_body_charset", "bad_part_charset", "long_body", "bad_date_long",
     "bad_date_short", "empty_date", "not_fetched", "no_literal",
     "lowercase_names", "repeated_headers"}

\* status: the status of the FETCH of this message; parts: the tuples in its
\* msg_data; subject, from: the kind of the header value ("absent": no such
\* header; "encoded": an encoded word; "unknown_charset": an encoded word in
\* a charset Python does not know; "malformed": an encoded word whose base64
\* text cannot be decoded); date: the Date header; body: the text/plain part;
\* names: how the header block spells its names ("lower": in lower case;
\* "repeated": each header once more further down, in upper case)
RawMessage(kind) ==
    [status |-> IF kind = "not_fetched" THEN "NO" ELSE "OK",
     parts |-> IF kind = "no_literal" THEN 0 ELSE 1,
     subject |-> CASE kind = "no_headers" -> "absent"
                   [] kind = "encoded_subject" -> "encoded"
                   [] kind = "unknown_charset" -> "unknown_charset"
                   [] kind = "malformed_subject" -> "malformed"
                   [] OTHER -> "plain",
     from |-> IF kind = "no_headers" THEN "absent" ELSE "plain",
     date |-> [present |-> kind # "no_headers",
               parseable |-> kind \notin {"no_headers", "bad_date_long",
                                          "bad_date_short", "empty_date"},
               raw |-> CASE kind \in {"no_headers", "empty_date"} -> <<>>
                         [] kind = "bad_date_short" -> Text(MaxDateExtra)
                         [] OTHER -> Text(DateLimit + MaxDateExtra)],
     names |-> CASE kind = "lowercase_names" -> "lower"
                 [] kind = "repeated_headers" -> "repeated"
                 [] OTHER -> "canonical",
     body |-> [multipart |-> kind = "bad_part_charset",
               decodable |-> kind \notin {"bad_body_charset", "bad_part_charset"},
               text |-> IF kind = "long_body" THEN Text(BodyLimit + MaxBodyExtra)
                        ELSE Text(MaxBodyExtra)]]

\* s[::-1]
Reverse(s) == [i \in 1..Len(s) |-> s[Len(s) + 1 - i]]

\* messages[0].split() after imap.search(None, "ALL"): the sequence numbers
SearchAll(box) == [i \in 1..Len(box) |-> i]

\* email_ids[-count:] if len(email_ids) > count else email_ids  (-0 is 0)
LastIds(email_ids, cnt) ==
    IF Len(email_ids) > cnt THEN PySlice(email_ids, 0 - cnt, Len(email_ids))
    ELSE email_ids

\* decode_header(header_value), line 59, is outside the try of lines 61-64:
\* the exception it raises for a header value
DecodeHeaderException(value) ==
    IF value = "malformed" THEN "HeaderParseError" ELSE "none"

\* decode_mime_header(msg.get(name, default)) when decode_header returns: a
\* part in an unknown charset is decoded again as utf-8 (lines 63-64)
DecodeMimeHeader(value, default) ==
    CASE value = "absent" -> default
      [] value = "plain" -> "text"
      [] value = "encoded" -> "decoded text"
      [] value = "unknown_charset" -> "text decoded as utf-8"
      [] OTHER -> "none"

\* date_parsed.strftime("%b %d, %Y %I:%M %p")
Strftime(date_str) == <<"%b %d, %Y %I:%M %p">> \o date_str

\* a fallback that keeps 25 characters of the raw header
ImapDateApiLimit(date) ==
    LET date_str == IF date.present THEN date.raw ELSE <<>> IN
    IF date.parseable THEN Strftime(date_str)
    ELSE IF date_str # <<>> THEN PySlice(date_str, 0, ApiDateLimit) ELSE Unknown
\* lines 145, 149-153: date_str = msg.get("Date", ""); the formatted date,
\* or `date_str[:20] if date_str else "Unknown"` when parsing raises
ImapDate(date) ==
    LET date_str == IF date.present THEN date.raw ELSE <<>> IN
    IF date.parseable THEN Strftime(date_str)
    ELSE IF date_str # <<>> THEN PySlice(date_str, 0, DateLimit) ELSE Unknown

\* get_email_body: a payload that cannot be decoded leaves the body empty in
\* a multipart message (line 87) and is taken undecoded otherwise (line 96)
ImapBody(b) ==
    GetEmailBody(IF b.decodable \/ ~b.multipart THEN b.text ELSE <<>>)

\* a dict that carries the sequence number of the newest message
ImapRecordNewestId(email_id, raw, newest) ==
    [id |-> newest,
     subject |-> DecodeMimeHeader(raw.subject, "No Subject"),
     from |-> DecodeMimeHeader(raw.from, "Unknown"),
     date |-> ImapDate(raw.date),
     body |-> ImapBody(raw.body)]
\* the dict of lines 155-161
ImapRecord(email_id, raw, newest) ==
    [id |-> email_id,
     subject |-> DecodeMimeHeader(raw.subject, "No Subject"),
     from |-> DecodeMimeHeader(raw.from, "Unknown"),
     date |-> ImapDate(raw.date),
     body |-> ImapBody(raw.body)]

\* the exception raised while lines 138-161 handle one tuple of msg_data
ImapRecordException(raw) ==
    IF DecodeHeaderException(raw.subject) # "none"
    THEN DecodeHeaderException(raw.subject)
    ELSE DecodeHeaderException(raw.from)

\* the message is fetched and its msg_data holds a tuple
Handled(raw) == raw.status = "OK" /\ raw.parts > 0

\* the loop of lines 132-161 when nothing raises: a message whose FETCH is
\* not OK is skipped, each tuple of msg_data appends one dict
RECURSIVE ImapLoop(_, _)
ImapLoop(email_ids, box) ==
    IF email_ids = <<>> THEN <<>>
    ELSE LET email_id == Head(email_ids)
             raw == box[email_id]
         IN  (IF raw.status # "OK" THEN <<>>
              ELSE [j \in 1..raw.parts |-> ImapRecord(email_id, raw, Len(box))])
             \o ImapLoop(Tail(email_ids), box)

\* the first exception raised in that loop
ImapLoopException(email_ids, box) ==
    IF \E i \in DOMAIN email_ids :
          Handled(box[email_ids[i]]) /\ ImapRecordException(box[email_ids[i]]) # "none"
    THEN "HeaderParseError" ELSE "none"

\* fetch_emails(email_address, app_password, count) from line 125 on, against
\* a server that answers every command: the list, or the error of the except
\* clause that handles what the loop raised
FetchEmailsList(box, cnt) ==
    LET email_ids == Reverse(LastIds(SearchAll(box), cnt))
        exc == ImapLoopException(email_ids, box)
    IN  IF exc = "none"
        THEN [transport |-> "A", ok |-> TRUE, emails |-> ImapLoop(email_ids, box),
              error |-> "none"]
        ELSE [transport |-> "A", ok |-> FALSE, emails |-> <<>>,
              error |-> CASE HandlerClass(FetchEmailsHandlers, exc) = "IMAP4.error" ->
                                "IMAP error"
                          [] HandlerClass(FetchEmailsHandlers, exc) = "Exception" ->
                                "Error fetching emails"
                          [] OTHER -> "none"]

\* results.get('messages', []) of messages.list(maxResults=count, labelIds=
\* ['INBOX']): the provider lists the newest messages, at most maxResults
ApiList(box, cnt) == PySlice(Reverse(SearchAll(box)), 0, cnt)

\* message.get('payload', {}).get('headers', []) of messages.get(format=
\* 'full'): the header block of the message as a list of name and value, in
\* the order of the message, undecoded
PayloadHeaders(raw) ==
    LET Spelled(name, lower) == IF raw.names = "lower" THEN lower ELSE name
        Again(upper, value) ==
            IF raw.names = "repeated" THEN <<[name |-> upper, value |-> value]>>
            ELSE <<>>
    IN  <<[name |-> "Delivered-To", value |-> "other"]>>
        \o (IF raw.subject = "absent" THEN <<>>
            ELSE <<[name |-> Spelled("Subject", "subject"), value |-> raw.subject]>>)
        \o (IF raw.from = "absent" THEN <<>>
            ELSE <<[name |-> Spelled("From", "from"), value |-> raw.from]>>)
        \o (IF ~raw.date.present THEN <<>>
            ELSE <<[name |-> Spelled("Date", "date"), value |-> raw.date.raw]>>)
        \o (IF raw.subject = "absent" THEN <<>> ELSE Again("SUBJECT", "second"))
        \o (IF raw.from = "absent" THEN <<>> ELSE Again("FROM", "second"))
        \o (IF ~raw.date.present THEN <<>> ELSE Again("DATE", Text(MaxDateExtra)))

\* str.lower() on the header names of the model
Lower(name) ==
    CASE name \in {"Subject", "SUBJECT"} -> "subject"
      [] name \in {"From", "FROM"} -> "from"
      [] name \in {"Date", "DATE"} -> "date"
      [] name = "Delivered-To" -> "delivered-to"
      [] OTHER -> name

\* a scan that compares the names as they are spelled
RECURSIVE ApiHeaderExactName(_, _, _)
ApiHeaderExactName(headers, name, default) ==
    IF headers = <<>> THEN default
    ELSE IF Head(headers).name = name THEN Head(headers).value
    ELSE ApiHeaderExactName(Tail(headers), name, default)
\* next((h['value'] for h in headers if h['name'].lower() == name), default)
RECURSIVE ApiHeader(_, _, _)
ApiHeader(headers, name, default) ==
    IF headers = <<>> THEN default
    ELSE IF Lower(Head(headers).name) = name THEN Head(headers).value
    ELSE ApiHeader(Tail(headers), name, default)

\* line 187: date_str[:25] if len(date_str) > 25 else date_str
ApiDate(date_str) ==
    IF Len(date_str) > ApiDateLimit THEN PySlice(date_str, 0, ApiDateLimit)
    ELSE date_str

\* lines 175-197: the three headers and the dict
ApiRecord(id, raw) ==
    LET headers == PayloadHeaders(raw) IN
    [id |-> id,
     subject |-> ApiHeader(headers, "subject", "No Subject"),
     from |-> ApiHeader(headers, "from", "Unknown"),
     date |-> ApiDate(ApiHeader(headers, "date", Unknown)),
     body |-> SnippetBody(raw.body.text)]

\* fetch_emails_oauth(credentials, count) from line 153 on, with a token the
\* provider accepts: messages.get of a message the provider does not hand
\* out raises HttpError, which ends the operation (line 201)
FetchEmailsOAuthList(box, cnt) ==
    LET messages == ApiList(box, cnt) IN
    IF \E i \in DOMAIN messages : box[messages[i]].status # "OK"
    THEN [transport |-> "B", ok |-> FALSE, emails |-> <<>>, error |-> "Gmail API error"]
    ELSE [transport |-> "B", ok |-> TRUE,
          emails |-> [i \in DOMAIN messages |-> ApiRecord(messages[i], box[messages[i]])],
          error |-> "none"]

(***************************************************************************)
(* The application (app.py).  One action is one run of the script: the     *)
(* widget event that started it and everything main() does for it.  A run  *)
(* that ends in st.rerun() queues a run without an event (rerun = TRUE),   *)
(* and no widget can be used until that run has rendered them.             *)
(***************************************************************************)
\* total_to_fetch
total_to_fetch == 100

Addresses == {"user@gmail.com"}
Secrets == {"app-password"}
AuthCodes == {"code1", "code2"}

pureVars == <<cred_in, cred_out, body, preview, mailbox, count, fetched, runs>>

\* a dispatch that compares the tag with a misspelt literal
UseOAuthTypo(method, creds) == method = "OAuth" /\ Truthy(creds)
\* the dispatch of inbox_page (line 639) and compose_page (line 809)
UseOAuth(method, creds) == method = "oauth" /\ Truthy(creds)

\* credentials = credentials_from_dict(st.session_state.oauth_credentials)
SessionCredentials == CredentialsFromDict(oauth_credentials[1])

\* what the provider can answer to the list or send request of this session
FetchOutcomes ==
    IF UseOAuth(auth_method, oauth_credentials) THEN ApiOutcomes ELSE ImapFetchOutcomes
SendOutcomes ==
    IF UseOAuth(auth_method, oauth_credentials) THEN ApiOutcomes ELSE SmtpOutcomes
InboxSizes(o) == IF o = "ok" THEN {k * InboxStep : k \in 0..MaxInboxSteps} ELSE {0}

\* the model issues at most MaxTokens access tokens
TokenBudget ==
    (/\ UseOAuth(auth_method, oauth_credentials)
     /\ NeedsRefresh(SessionCredentials, issued, expired)
     /\ CanRefresh(SessionCredentials)) => issued < MaxTokens

\* lines 636-647: the list request, on the transport the dispatch chooses
FetchCall(o) ==
    IF UseOAuth(auth_method, oauth_credentials)
    THEN [FetchEmailsOAuth(SessionCredentials, o, issued, expired)
            EXCEPT !.tag = auth_method,
                   !.aux = <<CredentialsFromDictOp(oauth_credentials[1])>>]
    ELSE [FetchEmails(email, password, o) EXCEPT !.tag = auth_method]

\* lines 808-825: the send request, on the transport the dispatch chooses
SendCall(to, o) ==
    IF UseOAuth(auth_method, oauth_credentials)
    THEN [SendEmailOAuth(SessionCredentials, to, o, issued, expired)
            EXCEPT !.tag = auth_method, !.address = email,
                   !.aux = <<CredentialsFromDictOp(oauth_credentials[1])>>]
    ELSE [SendEmail(email, password, to, o) EXCEPT !.tag = auth_method]

\* the provider's token count after a list or send request of this session
IssuedAfterCall ==
    IF UseOAuth(auth_method, oauth_credentials)
    THEN IssuedAfter(SessionCredentials, issued, expired) ELSE issued

\* inbox_page from the fetch on (lines 636-668, 751-752), for the page number
\* `page` the session holds when the fetch starts and an inbox of m messages
InboxRender(page, o, m) ==
    /\ TokenBudget
    /\ call' = FetchCall(o)
    /\ issued' = IssuedAfterCall
    /\ all_emails' = IF call'.success THEN Batch(Min(m, total_to_fetch)) ELSE <<>>
    /\ view' = IF call'.success THEN RenderBatch(all_emails', page, emails_per_page)
               ELSE ErrorView
    /\ UNCHANGED expired

\* st.session_state.email_page when the render is over (line 663)
PageAfter(page, v) == IF v.kind = "page" THEN v.current_page ELSE page

Happened(name) == event' = [name |-> name, page |-> email_page, tag |-> auth_method]

\* a run that ends before a page is rendered shows nothing and calls nothing
NothingRendered == all_emails' = <<>> /\ view' = NoView /\ call' = NoCall

(* ---- the login page (login_page, handle_oauth_callback) ---- *)

\* handle_oauth_callback exchanges a code only with a configured client
CallbackActive == query_code # NONE /\ oauth_configured

ExchangeOutcomes == {"ok", "failed"}

\* flow.credentials after a successful exchange: a new access token, with or
\* without a refresh token
FlowCredentials(refresh_token) ==
    [token |-> issued + 1, refresh_token |-> refresh_token,
     token_uri |-> GoogleTokenUri, client_id |-> "client-id",
     client_secret |-> "client-secret", scopes |-> SCOPES, expiry |-> "at-1h"]

\* a handler that logs in and leaves the code in the request parameters
CallbackLoginKeepsCode(refresh_token, address) ==
    /\ issued < MaxTokens
    /\ logged_in' = TRUE
    /\ auth_method' = "oauth"
    /\ oauth_credentials' = Some(CredentialsToDict(FlowCredentials(refresh_token)))
    /\ email' = address
    /\ query_code' = query_code
    /\ rerun' = TRUE
    /\ issued' = issued + 1
    /\ all_emails' = <<>> /\ view' = NoView
    /\ call' = [NoCall EXCEPT !.aux = <<ExchangeCode("ok"), GetUserEmail(address)>>]
    /\ UNCHANGED <<password, current_page, pageVars, oauth_configured, expired, pureVars>>
\* handle_oauth_callback, lines 259-269: the exchange succeeded
CallbackLogin(refresh_token, address) ==
    /\ issued < MaxTokens
    /\ logged_in' = TRUE
    /\ auth_method' = "oauth"
    /\ oauth_credentials' = Some(CredentialsToDict(FlowCredentials(refresh_token)))
    /\ email' = address
    /\ query_code' = NONE
    /\ rerun' = TRUE
    /\ issued' = issued + 1
    /\ all_emails' = <<>> /\ view' = NoView
    /\ call' = [NoCall EXCEPT !.aux = <<ExchangeCode("ok"), GetUserEmail(address)>>]
    /\ UNCHANGED <<password, current_page, pageVars, oauth_configured, expired, pureVars>>

\* the core operations a run of login_page calls before its Sign In handler
\* when it does not log in: the exchange that failed (line 256), and
\* get_authorization_url for the link button (line 308)
LoginPageOps(x) ==
    (IF CallbackActive THEN <<ExchangeCode(x)>> ELSE <<>>)
    \o (IF oauth_configured THEN <<GetAuthorizationUrl>> ELSE <<>>)

\* a check that lets one empty field pass
SignInRejectedBothEmpty(email_input, password_input) ==
    email_input = "" /\ password_input = ""
\* line 340: `if not email_input or not password_input`
SignInRejected(email_input, password_input) ==
    email_input = "" \/ password_input = ""

\* a handler that leaves auth_method as it was
SignInHandlerNoTag(email_input, password_input, o, ops) ==
    IF SignInRejected(email_input, password_input)
    THEN /\ call' = [NoCall EXCEPT !.aux = ops] /\ rerun' = FALSE
         /\ UNCHANGED <<logged_in, email, password, auth_method>>
    ELSE /\ call' = [Authenticate(email_input, password_input, o)
                        EXCEPT !.tag = auth_method, !.aux = ops]
         /\ IF call'.success
            THEN /\ logged_in' = TRUE
                 /\ email' = email_input
                 /\ password' = password_input
                 /\ rerun' = TRUE
                 /\ UNCHANGED auth_method
            ELSE /\ rerun' = FALSE
                 /\ UNCHANGED <<logged_in, email, password, auth_method>>
\* the "Sign In with App Password" handler, lines 339-356
SignInHandler(email_input, password_input, o, ops) ==
    IF SignInRejected(email_input, password_input)
    THEN /\ call' = [NoCall EXCEPT !.aux = ops] /\ rerun' = FALSE
         /\ UNCHANGED <<logged_in, email, password, auth_method>>
    ELSE /\ call' = [Authenticate(email_input, password_input, o)
                        EXCEPT !.tag = auth_method, !.aux = ops]
         /\ IF call'.success
            THEN /\ logged_in' = TRUE
                 /\ email' = email_input
                 /\ password' = password_input
                 /\ auth_method' = "app_password"
                 /\ rerun' = TRUE
            ELSE /\ rerun' = FALSE
                 /\ UNCHANGED <<logged_in, email, password, auth_method>>

\* a run of the login page without a click: the first run of a session, or
\* the run after a logout
LoginLoad ==
    /\ rerun /\ ~logged_in
    /\ Happened("rerun")
    /\ \E x \in ExchangeOutcomes, rt \in {NONE, "refresh-token"},
          address \in Addresses \cup {"Unknown"} :
          IF CallbackActive /\ x = "ok"
          THEN CallbackLogin(rt, address)
          ELSE /\ query_code' = IF CallbackActive THEN NONE ELSE query_code
               /\ rerun' = FALSE
               /\ all_emails' = <<>> /\ view' = NoView
               /\ call' = [NoCall EXCEPT !.aux = LoginPageOps(x)]
               /\ UNCHANGED <<sessionVars, pageVars, oauth_configured, providerVars,
                              pureVars>>

\* a click on "Sign In with App Password"
SignIn ==
    /\ ~rerun /\ ~logged_in
    /\ Happened("sign_in")
    /\ \E x \in ExchangeOutcomes, rt \in {NONE, "refresh-token"},
          address \in Addresses \cup {"Unknown"},
          email_input \in Addresses \cup {""}, password_input \in Secrets \cup {""},
          o \in ImapLoginOutcomes :
          IF CallbackActive /\ x = "ok"
          THEN CallbackLogin(rt, address)
          ELSE /\ query_code' = IF CallbackActive THEN NONE ELSE query_code
               /\ SignInHandler(email_input, password_input, o, LoginPageOps(x))
               /\ all_emails' = <<>> /\ view' = NoView
               /\ UNCHANGED <<current_page, oauth_credentials, pageVars,
                              oauth_configured, providerVars, pureVars>>

(* ---- the sidebar (sidebar, lines 573-593) ---- *)

SidebarInbox ==
    /\ ~rerun /\ logged_in
    /\ Happened("nav_inbox")
    /\ current_page' = "inbox"
    /\ rerun' = TRUE
    /\ NothingRendered
    /\ UNCHANGED <<logged_in, email, password, auth_method, oauth_credentials,
                   pageVars, query_code, oauth_configured, providerVars, pureVars>>

SidebarCompose ==
    /\ ~rerun /\ logged_in
    /\ Happened("nav_compose")
    /\ current_page' = "compose"
    /\ rerun' = TRUE
    /\ NothingRendered
    /\ UNCHANGED <<logged_in, email, password, auth_method, oauth_credentials,
                   pageVars, query_code, oauth_configured, providerVars, pureVars>>

\* a logout that leaves the delegated credential in the session
LogoutKeepsCredentials ==
    /\ ~rerun /\ logged_in
    /\ Happened("logout")
    /\ logged_in' = FALSE
    /\ email' = ""
    /\ password' = ""
    /\ auth_method' = NONE
    /\ current_page' = "inbox"
    /\ rerun' = TRUE
    /\ NothingRendered
    /\ UNCHANGED <<oauth_credentials, pageVars, query_code, oauth_configured,
                   providerVars, pureVars>>
\* the Logout button, lines 586-593
Logout ==
    /\ ~rerun /\ logged_in
    /\ Happened("logout")
    /\ logged_in' = FALSE
    /\ email' = ""
    /\ password' = ""
    /\ auth_method' = NONE
    /\ oauth_credentials' = NoValue
    /\ current_page' = "inbox"
    /\ rerun' = TRUE
    /\ NothingRendered
    /\ UNCHANGED <<pageVars, query_code, oauth_configured, providerVars, pureVars>>

(* ---- the inbox page (inbox_page) ---- *)

OnInbox == logged_in /\ current_page = "inbox"

\* a selectbox handler that keeps the page number
ChangePageSizeKeepsPage(per_page) ==
    /\ ~rerun /\ OnInbox
    /\ per_page # emails_per_page
    /\ Happened("per_page_select")
    /\ emails_per_page' = per_page
    /\ rerun' = TRUE
    /\ NothingRendered
    /\ UNCHANGED <<sessionVars, email_page, query_code, oauth_configured,
                   providerVars, pureVars>>
\* the selectbox handler, lines 622-625: the run ends before the fetch
ChangePageSize(per_page) ==
    /\ ~rerun /\ OnInbox
    /\ per_page # emails_per_page
    /\ Happened("per_page_select")
    /\ emails_per_page' = per_page
    /\ email_page' = 1
    /\ rerun' = TRUE
    /\ NothingRendered
    /\ UNCHANGED <<sessionVars, query_code, oauth_configured, providerVars, pureVars>>

\* a run of the inbox page without an event: fetch and render
InboxLoad ==
    /\ rerun /\ OnInbox
    /\ Happened("rerun")
    /\ \E o \in FetchOutcomes : \E m \in InboxSizes(o) :
          /\ InboxRender(email_page, o, m)
          /\ email_page' = PageAfter(email_page, view')
    /\ rerun' = FALSE
    /\ UNCHANGED <<sessionVars, emails_per_page, query_code, oauth_configured, pureVars>>

\* the Refresh button, lines 631-634: back to page 1, then fetch and render
Refresh ==
    /\ ~rerun /\ OnInbox
    /\ Happened("refresh")
    /\ \E o \in FetchOutcomes : \E m \in InboxSizes(o) :
          /\ InboxRender(1, o, m)
          /\ email_page' = PageAfter(1, view')
    /\ rerun' = FALSE
    /\ UNCHANGED <<sessionVars, emails_per_page, query_code, oauth_configured, pureVars>>

\* the pagination buttons, lines 673-700: `disabled` and the page each sets
ButtonDisabled(name, v) ==
    IF name \in {"first", "prev"} THEN v.current_page = 1
    ELSE v.current_page = v.total_pages
ButtonTarget(name, v) ==
    CASE name = "first" -> 1
      [] name = "prev" -> v.current_page - 1
      [] name = "next" -> v.current_page + 1
      [] OTHER -> v.total_pages

\* st.button returns the click of the browser whatever `disabled` is in the
\* run that handles it: the argument only greys the button out in the page
\* this run sends, so the handler runs whenever the run reaches the button
ButtonFires(name, v) == v.kind = "page"

\* a click on a pagination button the last render showed enabled: the run
\* fetches and renders again, and the handler of the button runs if the run
\* reaches the button (the model follows the page number down to
\* 1 - MaxPagesBelow)
PageButton(name) ==
    /\ ~rerun /\ OnInbox
    /\ view.kind = "page" /\ ~ButtonDisabled(name, view)
    /\ Happened(name)
    /\ \E o \in FetchOutcomes : \E m \in InboxSizes(o) :
          /\ InboxRender(email_page, o, m)
          /\ IF ButtonFires(name, view')
             THEN /\ ButtonTarget(name, view') >= 1 - MaxPagesBelow
                  /\ email_page' = ButtonTarget(name, view') /\ rerun' = TRUE
             ELSE email_page' = PageAfter(email_page, view') /\ rerun' = FALSE
    /\ UNCHANGED <<sessionVars, emails_per_page, query_code, oauth_configured, pureVars>>

First == PageButton("first")
Prev == PageButton("prev")
Next_ == PageButton("next")
Last == PageButton("last")

\* the Reply and Forward buttons of the idx-th message shown, lines 741-750
ReplyOrForward ==
    /\ ~rerun /\ OnInbox
    /\ view.kind = "page" /\ view.emails # <<>>
    /\ Happened("reply")
    /\ \E idx \in {1, Len(view.emails)} : \E o \in FetchOutcomes : \E m \in InboxSizes(o) :
          /\ InboxRender(email_page, o, m)
          /\ email_page' = PageAfter(email_page, view')
          /\ IF view'.kind = "page" /\ idx <= Len(view'.emails)
             THEN current_page' = "compose" /\ rerun' = TRUE
             ELSE current_page' = current_page /\ rerun' = FALSE
    /\ UNCHANGED <<logged_in, email, password, auth_method, oauth_credentials,
                   emails_per_page, query_code, oauth_configured, pureVars>>

(* ---- the compose page (compose_page) ---- *)

OnCompose == logged_in /\ current_page = "compose"

\* a run of the compose page without an event
ComposeLoad ==
    /\ rerun /\ OnCompose
    /\ Happened("rerun")
    /\ rerun' = FALSE
    /\ NothingRendered
    /\ UNCHANGED <<sessionVars, pageVars, query_code, oauth_configured,
                   providerVars, pureVars>>

\* a validation that does not look at the recipient
ComposeErrorNoRecipient(to_email, subject, message) ==
    CASE subject = "" -> "Please enter a subject."
      [] subject # "" /\ message = "" -> "Please enter a message."
      [] OTHER -> "none"
\* lines 800-805: the error the form shows ("none": the input is complete)
ComposeError(to_email, subject, message) ==
    CASE to_email = "" -> "Please enter a recipient email address."
      [] to_email # "" /\ subject = "" -> "Please enter a subject."
      [] to_email # "" /\ subject # "" /\ message = "" -> "Please enter a message."
      [] OTHER -> "none"

\* the Send button, lines 799-831: validation, then the dispatch
Send ==
    /\ ~rerun /\ OnCompose
    /\ TokenBudget
    /\ Happened("send")
    /\ \E to_email \in {"", "friend@example.com"}, subject \in {"", "subject"},
          message \in {"", "text"}, o \in SendOutcomes :
          IF ComposeError(to_email, subject, message) # "none"
          THEN /\ call' = [NoCall EXCEPT
                              !.message = ComposeError(to_email, subject, message)]
               /\ issued' = issued
          ELSE call' = SendCall(to_email, o) /\ issued' = IssuedAfterCall
    /\ all_emails' = <<>> /\ view' = NoView
    /\ UNCHANGED <<sessionVars, pageVars, browserVars, expired, pureVars>>

(* ---- the environment ---- *)

\* the provider lets an access token expire
TokenExpires ==
    /\ \E token \in (1..issued) \ expired : expired' = expired \cup {token}
    /\ UNCHANGED <<sessionVars, pageVars, browserVars, inboxVars, call, issued, pureVars>>

\* the browser loads the application, with or without an authorization code
\* in the URL: a new session, which init_session_state fills with defaults
PageLoad ==
    /\ logged_in' = FALSE
    /\ email' = ""
    /\ password' = ""
    /\ current_page' = "inbox"
    /\ auth_method' = NONE
    /\ oauth_credentials' = NoValue
    /\ email_page' = 1
    /\ emails_per_page' = 25
    /\ query_code' \in AuthCodes \cup {NONE}
    /\ rerun' = TRUE
    /\ NothingRendered
    /\ Happened("page_load")
    /\ UNCHANGED <<oauth_configured, providerVars, pureVars>>

Init ==
    /\ SessionDefaults
    /\ query_code \in AuthCodes \cup {NONE}
    /\ rerun = TRUE
    /\ oauth_configured \in BOOLEAN
    /\ InboxIdle /\ ProviderIdle /\ CredIdle /\ BodyIdle /\ FetchIdle
    /\ SecretIdle

Next ==
    \/ LoginLoad \/ SignIn
    \/ SidebarInbox \/ SidebarCompose \/ Logout
    \/ \E per_page \in PageSizes : ChangePageSize(per_page)
    \/ InboxLoad \/ Refresh \/ First \/ Prev \/ Next_ \/ Last \/ ReplyOrForward
    \/ ComposeLoad \/ Send
    \/ TokenExpires \/ PageLoad

Spec == Init /\ [][Next]_vars

(***************************************************************************)
(* SpecPaging: the page computation as a function of its inputs.           *)
(***************************************************************************)
PagingInit ==
    /\ logged_in = FALSE /\ email = "" /\ password = "" /\ current_page = "inbox"
    /\ auth_method = NONE /\ oauth_credentials = NoValue
    /\ \E n \in 0..MaxBatchLen : all_emails = Batch(n)
    /\ emails_per_page \in PageSizes
    /\ email_page \in 0..MaxReqPage
    /\ view = NoView /\ call = NoCall /\ event = NoEvent
    /\ BrowserIdle /\ ProviderIdle /\ CredIdle /\ BodyIdle /\ FetchIdle
    /\ SecretIdle

\* lines 649-668 applied to the batch
Paginate ==
    /\ view = NoView
    /\ view' = RenderBatch(all_emails, email_page, emails_per_page)
    /\ email_page' = PageAfterRender(all_emails, email_page, emails_per_page)
    /\ UNCHANGED <<sessionVars, emails_per_page, browserVars, all_emails, call, event,
                   providerVars, credVars, bodyVars, fetchVars, secretVars>>

PagingNext == Paginate

SpecPaging == PagingInit /\ [][PagingNext]_vars

(***************************************************************************)
(* SpecCred: a credential stored into the session and rebuilt from it.     *)
(***************************************************************************)
ScopeNames == {"gmail.readonly", "gmail.send"}
ScopeLists == UNION {[1..k -> ScopeNames] : k \in 0..MaxScopes}
CredObjects ==
    [token : 1..2, refresh_token : {NONE, "rt"},
     token_uri : {GoogleTokenUri, "https://example.test/token"},
     client_id : {"cid"}, client_secret : {"cs"},
     scopes : ScopeLists, expiry : {NONE, "at-1h"}]

CredInit ==
    /\ SessionDefaults /\ BrowserIdle /\ InboxIdle /\ ProviderIdle /\ BodyIdle
    /\ FetchIdle /\ SecretIdle
    /\ \E c \in CredObjects : cred_in = Some(c)
    /\ cred_out = NoValue

\* st.session_state.oauth_credentials = credentials_to_dict(credentials)
Serialize ==
    /\ oauth_credentials = NoValue
    /\ oauth_credentials' = Some(CredentialsToDict(cred_in[1]))
    /\ UNCHANGED <<logged_in, email, password, current_page, auth_method, pageVars,
                   browserVars, inboxVars, call, providerVars, credVars, bodyVars, fetchVars, secretVars>>

\* credentials = credentials_from_dict(st.session_state.oauth_credentials)
Deserialize ==
    /\ Truthy(oauth_credentials)
    /\ cred_out = NoValue
    /\ cred_out' = Some(CredentialsFromDict(oauth_credentials[1]))
    /\ UNCHANGED <<sessionVars, pageVars, browserVars, inboxVars, call,
                   providerVars, cred_in, bodyVars, fetchVars, secretVars>>

CredNext == Serialize \/ Deserialize

SpecCred == CredInit /\ [][CredNext]_vars

(***************************************************************************)
(* SpecBody: the body preview as a function of the decoded body.           *)
(***************************************************************************)
\* bodies of every length up to the limit and a little beyond, of three kinds
BodyKinds == {"letters", "dots", "mixed"}
BodyText(len, kind) ==
    [i \in 1..len |-> CASE kind = "letters" -> "a"
                        [] kind = "dots" -> "."
                        [] OTHER -> IF i % 2 = 0 THEN "." ELSE "b"]

BodyInit ==
    /\ SessionDefaults /\ BrowserIdle /\ InboxIdle /\ ProviderIdle /\ CredIdle
    /\ FetchIdle /\ SecretIdle
    /\ \E len \in 0..(BodyLimit + MaxBodyExtra), kind \in BodyKinds :
          body = BodyText(len, kind)
    /\ preview = NoPreview

\* Transport A: the body returned by get_email_body
PreviewImap ==
    /\ preview.times = 0
    /\ preview' = [transport |-> "A", times |-> 1, first |-> GetEmailBody(body),
                   text |-> GetEmailBody(body)]
    /\ UNCHANGED <<sessionVars, pageVars, browserVars, inboxVars, call,
                   providerVars, credVars, body, fetchVars, secretVars>>

\* Transport B: the 'body' entry built from the snippet
PreviewApi ==
    /\ preview.times = 0
    /\ preview' = [transport |-> "B", times |-> 1, first |-> SnippetBody(body),
                   text |-> SnippetBody(body)]
    /\ UNCHANGED <<sessionVars, pageVars, browserVars, inboxVars, call,
                   providerVars, credVars, body, fetchVars, secretVars>>

\* the same truncation applied to a preview
PreviewAgain ==
    /\ preview.times = 1
    /\ preview' = [preview EXCEPT !.times = 2,
                      !.text = IF preview.transport = "A" THEN GetEmailBody(preview.text)
                               ELSE SnippetBody(preview.text)]
    /\ UNCHANGED <<sessionVars, pageVars, browserVars, inboxVars, call,
                   providerVars, credVars, body, fetchVars, secretVars>>

BodyNext == PreviewImap \/ PreviewApi \/ PreviewAgain

SpecBody == BodyInit /\ [][BodyNext]_vars

(***************************************************************************)
(* SpecFetch: a list request as a function of the inbox and the count.     *)
(***************************************************************************)
Mailboxes == UNION {[1..k -> {RawMessage(kind) : kind \in MessageKinds}] : k \in 0..MaxMailbox}

FetchInit ==
    /\ SessionDefaults /\ BrowserIdle /\ InboxIdle /\ ProviderIdle /\ CredIdle
    /\ BodyIdle /\ SecretIdle
    /\ mailbox \in Mailboxes
    /\ count \in 0..MaxCount
    /\ fetched = NoFetch

\* Transport A: fetch_emails(email_address, app_password, count)
FetchImap ==
    /\ fetched = NoFetch
    /\ fetched' = FetchEmailsList(mailbox, count)
    /\ UNCHANGED <<sessionVars, pageVars, browserVars, inboxVars, call,
                   providerVars, credVars, bodyVars, mailbox, count, secretVars>>

\* Transport B: fetch_emails_oauth(credentials, count), for a count the API
\* accepts as maxResults
FetchApi ==
    /\ fetched = NoFetch
    /\ count >= 1
    /\ fetched' = FetchEmailsOAuthList(mailbox, count)
    /\ UNCHANGED <<sessionVars, pageVars, browserVars, inboxVars, call,
                   providerVars, credVars, bodyVars, mailbox, count, secretVars>>

FetchNext == FetchImap \/ FetchApi

SpecFetch == FetchInit /\ [][FetchNext]_vars

(***************************************************************************)
(* SpecSecret: one Transport A operation run twice, with the same address  *)
(* against the same server behaviour, under two different secrets.         *)
(***************************************************************************)
SecretTexts == {"app-password", "other-password", "p[U+00E4]ssword", "pas[U+00F1]word"}

SecretInit ==
    /\ SessionDefaults /\ BrowserIdle /\ InboxIdle /\ ProviderIdle /\ CredIdle
    /\ BodyIdle /\ FetchIdle
    /\ \E address \in Addresses, secret1 \in SecretTexts, secret2 \in SecretTexts :
          /\ secret1 # secret2
          /\ runs = <<[NoCall EXCEPT !.address = address, !.secret = secret1],
                      [NoCall EXCEPT !.address = address, !.secret = secret2]>>

NotRun == runs[1].op = "none"
UnchangedBySecretRuns ==
    UNCHANGED <<sessionVars, pageVars, browserVars, inboxVars, call, providerVars,
                credVars, bodyVars, fetchVars>>

\* authenticate(address, secret)
RunAuthenticate ==
    /\ NotRun
    /\ \E o \in ImapLoginOutcomes :
          runs' = [i \in 1..2 |-> Authenticate(runs[i].address, runs[i].secret, o)]
    /\ UnchangedBySecretRuns

\* fetch_emails(address, secret, count)
RunFetchEmails ==
    /\ NotRun
    /\ \E o \in ImapFetchOutcomes :
          runs' = [i \in 1..2 |-> FetchEmails(runs[i].address, runs[i].secret, o)]
    /\ UnchangedBySecretRuns

\* send_email(address, secret, to, subject, body)
RunSendEmail ==
    /\ NotRun
    /\ \E o \in SmtpOutcomes :
          runs' = [i \in 1..2 |->
                      SendEmail(runs[i].address, runs[i].secret, "friend@example.com", o)]
    /\ UnchangedBySecretRuns

SecretNext == RunAuthenticate \/ RunFetchEmails \/ RunSendEmail

SpecSecret == SecretInit /\ [][SecretNext]_vars

(***************************************************************************)
(* Properties.                                                             *)
(***************************************************************************)
\* ceil(n / d), by its definition: the least k with k * d >= n
CeilDiv(n, d) == CHOOSE k \in 0..n : k * d >= n /\ (k - 1) * d < n

\* the slices of pages 1..k, concatenated in page order
RECURSIVE ConcatPages(_, _, _)
ConcatPages(batch, per_page, k) ==
    IF k = 0 THEN <<>>
    ELSE ConcatPages(batch, per_page, k - 1) \o PageView(batch, k, per_page).emails

\* C1: for every batch length and page size the pagination counts
\* ceil(n / pageSize) pages (0 for an empty batch), the page it renders
\* reports that count, and the slices of pages 1..totalPages, concatenated
\* in page order, are the batch itself.
C1_PaginationCorrect ==
    LET n == Len(all_emails)
        total_pages == TotalPages(n, emails_per_page)
    IN  /\ total_pages = CeilDiv(n, emails_per_page)
        /\ ConcatPages(all_emails, emails_per_page, total_pages) = all_emails
        /\ view.kind = "page" => view.total_pages = CeilDiv(n, emails_per_page)

\* a batch of 101 messages rendered at 25 per page: 5 pages, the last partial
C1_Witness ==
    /\ view.kind = "page"
    /\ Len(all_emails) = 101 /\ emails_per_page = 25
    /\ view.total_pages = 5 /\ view.requested = 5 /\ Len(view.emails) = 1

\* C2: for a non-empty batch a requested page 0 gives the first page, a
\* requested page beyond the last gives the last page, and the page rendered
\* is never empty.
C2_PageClamp ==
    view.kind = "page" =>
        /\ view.emails # <<>>
        /\ view.requested = 0 => view.current_page = 1
        /\ view.requested > view.total_pages => view.current_page = view.total_pages

\* C3: after a change of page size the session is on page 1, whatever page
\* it was on before.
C3_PageSizeChangeResetsPage ==
    event.name = "per_page_select" => email_page = 1

\* the session was on page 4 at 10 per page and changed to 25 per page
C3_Witness ==
    /\ event.name = "per_page_select" /\ event.page = 4
    /\ emails_per_page = 25 /\ email_page = 1

\* C4: a credential rebuilt from its session dict has the access token,
\* refresh token, token endpoint, client id, client secret and scopes of the
\* original, and the dict always has a scopes entry that is a list, the empty
\* list for a credential without scopes.
C4_CredentialRoundTrip ==
    /\ Truthy(oauth_credentials) /\ Truthy(cred_in) =>
          /\ "scopes" \in DOMAIN oauth_credentials[1]
          /\ oauth_credentials[1].scopes = cred_in[1].scopes
    /\ Truthy(cred_out) =>
          /\ cred_out[1].token = cred_in[1].token
          /\ cred_out[1].refresh_token = cred_in[1].refresh_token
          /\ cred_out[1].token_uri = cred_in[1].token_uri
          /\ cred_out[1].client_id = cred_in[1].client_id
          /\ cred_out[1].client_secret = cred_in[1].client_secret
          /\ cred_out[1].scopes = cred_in[1].scopes

\* a credential with no refresh token and no scopes has made the round trip
C4_Witness ==
    /\ Truthy(cred_out)
    /\ cred_in[1].refresh_token = NONE /\ cred_in[1].scopes = <<>>
    /\ oauth_credentials[1].scopes = <<>>

\* C5: a body of at most 500 characters is its own preview, a longer body's
\* preview is its first 500 characters followed by "...", no preview is
\* longer than 503 characters, and truncating a preview again changes nothing.
C5_BodyTruncation ==
    preview.times >= 1 =>
        /\ Len(body) <= 500 => preview.first = body
        /\ Len(body) > 500 => preview.first = SubSeq(body, 1, 500) \o <<".", ".", ".">>
        /\ Len(preview.text) <= 503
        /\ preview.times = 2 => preview.text = preview.first

\* a body of 504 characters, truncated by Transport A and truncated again
C5_Witness ==
    /\ preview.times = 2 /\ preview.transport = "A"
    /\ Len(body) = 504 /\ Len(preview.text) = 503

\* C6: when a Transport A operation has returned, the connection it opened
\* is closed.
C6_ConnectionsClosed ==
    call.transport = "A" => call.conn # "open"

\* C7: a Transport B call that renewed the access token leaves the renewed
\* token in the session's stored credential.
C7_RenewedTokenStored ==
    call.refreshed => /\ Truthy(oauth_credentials)
                      /\ oauth_credentials[1].token = call.token

\* C8: a logged-in session holds one credential and its tag, a session that
\* is not logged in holds neither.
C8_SessionHoldsOneCredential ==
    /\ logged_in =>
          \/ /\ auth_method = "oauth"
             /\ Truthy(oauth_credentials) /\ password = ""
          \/ /\ auth_method = "app_password"
             /\ email # "" /\ password # "" /\ oauth_credentials = NoValue
    /\ ~logged_in =>
          /\ auth_method = NONE /\ oauth_credentials = NoValue
          /\ email = "" /\ password = ""

\* a direct login in a model run that has seen a delegated login before
C8_Witness ==
    /\ logged_in /\ auth_method = "app_password" /\ issued > 0
    /\ call.op = "authenticate" /\ call.success

\* C9: right after a logout the session is not logged in and holds no
\* address, no secret, no delegated credential and no tag.
C9_LogoutDestroysCredential ==
    event.name = "logout" =>
        /\ ~logged_in
        /\ email = "" /\ password = ""
        /\ oauth_credentials = NoValue
        /\ auth_method = NONE

\* a delegated session has logged out
C9_Witness ==
    event.name = "logout" /\ event.tag = "oauth" /\ ~logged_in

\* C10: a list or send request goes to Transport B with the session's
\* delegated credential when the tag is 'oauth', and to Transport A with the
\* session's address and secret when the tag is 'app_password'.
C10_DispatchByTag ==
    call.op \in {"fetch", "send"} =>
        /\ call.tag = auth_method
        /\ call.tag \in {"oauth", "app_password"}
        /\ call.tag = "oauth" =>
              /\ call.transport = "B"
              /\ call.creds = Some(SessionCredentials)
              /\ call.secret = ""
        /\ call.tag = "app_password" =>
              /\ call.transport = "A"
              /\ call.address = email /\ call.secret = password
              /\ call.creds = NoValue

\* a delegated session has sent a message through Transport B
C10_Witness ==
    /\ call.op = "send" /\ call.tag = "oauth" /\ call.transport = "B" /\ call.success

\* C11: every core operation a script run calls (authenticate, the
\* authorization URL, the code exchange, the user's address, the rebuilding
\* of the credential, and the list and send requests of both transports) ends
\* with a result that says success or failure; no exception leaves it.
C11_NoUnhandledException ==
    /\ ~call.raised
    /\ call.op # "none" => call.success \in BOOLEAN /\ call.message # "none"
    /\ \A i \in DOMAIN call.aux :
          /\ ~call.aux[i].raised
          /\ call.aux[i].result \in {"success", "failure"}

\* a run of the login page that built the authorization URL and whose login
\* attempt ended in a socket error
C11_Witness ==
    /\ call.op = "authenticate" /\ call.outcome = "io_error"
    /\ ~call.success /\ call.message = "Connection error"
    /\ Len(call.aux) = 1
    /\ call.aux[1].op = "get_authorization_url" /\ call.aux[1].result = "success"

\* the messages of the inbox that a list request for `count` messages reads,
\* newest first, and those of them the server hands out
Selected == Reverse(LastIds(SearchAll(mailbox), count))
IsHandled(email_id) == Handled(mailbox[email_id])
\* the records of the result made from message email_id
RecordsOf(email_id) == {i \in DOMAIN fetched.emails : fetched.emails[i].id = email_id}

\* C12: a header or body of one message that cannot be decoded does not end
\* a Transport A list request: the request succeeds and returns a record for
\* every message it read from the server.
C12_DecodingFailureLocal ==
    fetched.transport = "A" =>
        /\ fetched.ok
        /\ \A i \in DOMAIN Selected :
              IsHandled(Selected[i]) => RecordsOf(Selected[i]) # {}

C16_LastCountNewestFirst ==
    fetched.transport = "A" /\ fetched.ok =>
        LET n == Len(mailbox)
            k == Min(count, n)
            newest == [i \in 1..k |-> n + 1 - i]
        IN  /\ Len(fetched.emails) <= count
            /\ [i \in DOMAIN fetched.emails |-> fetched.emails[i].id]
                  = SelectSeq(newest, IsHandled)

\* C17: the ids of the records of one list result, of either transport, are
\* pairwise distinct: a listed message contributes at most one record.
C17_DistinctIds ==
    fetched.ok =>
        /\ \A i, j \in DOMAIN fetched.emails :
              i # j => fetched.emails[i].id # fetched.emails[j].id
        /\ \A email_id \in DOMAIN mailbox : Cardinality(RecordsOf(email_id)) <= 1

\* a Transport A list of three records
C17_Witness ==
    /\ fetched.transport = "A" /\ fetched.ok
    /\ Len(mailbox) = 3 /\ count = 3 /\ Len(fetched.emails) = 3

\* C14: authenticate against a server that rejects the login as bad
\* credentials returns failure with the App Password guidance, a message no
\* other failure gets; it returns success only when the login was accepted,
\* and it issues no command that reads mail.
C14_RejectedLoginGuidance ==
    call.op = "authenticate" =>
        /\ call.success => call.outcome = "ok"
        /\ call.outcome = "auth_failed" =>
              ~call.success /\ call.message = "Please use an App Password"
        /\ call.outcome \in {"connect_error", "imap_error", "io_error"} =>
              ~call.success /\ call.message # "Please use an App Password"
        /\ \A i \in DOMAIN call.steps : call.steps[i] \notin {"select", "search", "fetch"}

\* a login the server rejected as bad credentials; the session stays logged out
C14_Witness ==
    /\ call.op = "authenticate" /\ call.outcome = "auth_failed"
    /\ call.message = "Please use an App Password"
    /\ call.steps = <<"connect", "login">>
    /\ ~logged_in

\* C15: a send with an empty recipient is rejected before any transport is
\* called: no send call of either transport carries an empty recipient.
C15_EmptyRecipientRejected ==
    /\ call.op = "send" => call.to # ""
    /\ (event.name = "send" /\ call.message = "Please enter a recipient email address.") =>
          /\ call.op = "none" /\ call.transport = "none"
          /\ call.steps = <<>> /\ call.conn = "none"

\* the Send button was pressed with an empty recipient
C15_Witness ==
    /\ event.name = "send"
    /\ call.message = "Please enter a recipient email address."
    /\ call.op = "none"

\* C19: every call that reaches Transport A carries a non-empty address and
\* a non-empty secret, the calls of the dispatch's else branch included.
C19_TransportAHasCredentials ==
    call.transport = "A" => call.address # "" /\ call.secret # ""

\* a list request that took the else branch of the dispatch
C19_Witness ==
    /\ call.op = "fetch" /\ call.transport = "A" /\ call.tag = "app_password"
    /\ call.address = "user@gmail.com" /\ call.secret = "app-password"

\* C20: a Transport A send issues connect, starttls, login, send_message and
\* quit in this order; login only after starttls succeeded, send_message only
\* after login succeeded; a step that fails is the last step, and the result
\* is then one of the three failures.
C20_SendOrder ==
    call.op = "send" /\ call.transport = "A" =>
        LET order == <<"connect", "starttls", "login", "send_message", "quit">>
            k == Len(call.steps)
            issued_steps == {call.steps[i] : i \in DOMAIN call.steps}
        IN  /\ k \in 1..5 /\ call.steps = SubSeq(order, 1, k)
            /\ "login" \in issued_steps =>
                  call.outcome \notin {"connect_error", "starttls_error"}
            /\ "send_message" \in issued_steps =>
                  call.outcome \notin {"connect_error", "starttls_error", "auth_error"}
            /\ call.success <=> k = 5
            /\ call.outcome # "ok" =>
                  /\ ~call.success
                  /\ call.message \in {"Authentication failed: Invalid credentials",
                                       "Failed: Invalid recipient email address",
                                       "Failed to send email"}
                  /\ call.steps[k] =
                        CASE call.outcome = "connect_error" -> "connect"
                          [] call.outcome = "starttls_error" -> "starttls"
                          [] call.outcome = "auth_error" -> "login"
                          [] OTHER -> "send_message"

\* a send whose encryption upgrade failed: no login, no transmission
C20_Witness ==
    /\ call.op = "send" /\ call.transport = "A"
    /\ call.outcome = "starttls_error" /\ call.steps = <<"connect", "starttls">>
    /\ ~call.success /\ call.message = "Failed to send email"

\* C18: the secret is never written to the log: two runs of a Transport A
\* operation that differ only in the secret, and in which the server was
\* sent the same commands and gave the same answers, print the same lines,
\* and no line holds the secret.
C18_SecretNotLogged ==
    (Len(runs) = 2 /\ runs[1].op # "none") =>
        /\ \A r \in 1..2 : \A i \in DOMAIN runs[r].log : \A j \in DOMAIN runs[r].log[i] :
              runs[r].log[i][j] # runs[r].secret
        /\ (/\ runs[1].outcome = runs[2].outcome
            /\ runs[1].steps = runs[2].steps
            /\ IsAscii(runs[1].secret) <=> IsAscii(runs[2].secret))
              => runs[1].log = runs[2].log

\* C21: in every state the inbox operations reach, the stored page number
\* is at least 1 and the stored page size is 10, 25, 50 or 100, and a page
\* rendered of a non-empty batch is a page in 1..ceil(batch length / page
\* size) that shows at least one message.
C21_PageInRange ==
    /\ email_page >= 1
    /\ emails_per_page \in {10, 25, 50, 100}
    /\ view.kind = "page" =>
          /\ view.current_page >= 1
          /\ view.current_page <= CeilDiv(view.total_emails, emails_per_page)
          /\ view.emails # <<>>


\* the positions of the headers named `name`, whatever the case of the name
Matching(headers, name) == {j \in DOMAIN headers : Lower(headers[j].name) = name}
\* the value of the first of them, or the default when there is none
FirstValue(headers, name, default) ==
    LET found == Matching(headers, name) IN
    IF found = {} THEN default
    ELSE headers[CHOOSE j \in found : \A k \in found : j <= k].value

\* C22: a list request of Transport B that succeeds returns one message per
\* identifier the provider lists, in the provider's order (none when the
\* provider lists none); the subject, sender and date of each are the value
\* of the first header of that name, compared without regard to case, or
\* "No Subject", "Unknown" and "Unknown" when the message has no such header,
\* and the date is that text cut to its first 25 characters.
C22_ApiRecords ==
    (fetched.transport = "B" /\ fetched.ok) =>
        LET listed == ApiList(mailbox, count) IN
        /\ Len(fetched.emails) = Len(listed)
        /\ (listed = <<>> => fetched.emails = <<>>)
        /\ \A i \in DOMAIN listed :
              LET headers == PayloadHeaders(mailbox[listed[i]])
                  date_str == FirstValue(headers, "date", Unknown)
              IN  /\ fetched.emails[i].id = listed[i]
                  /\ fetched.emails[i].subject = FirstValue(headers, "subject", "No Subject")
                  /\ fetched.emails[i].from = FirstValue(headers, "from", "Unknown")
                  /\ fetched.emails[i].date =
                        SubSeq(date_str, 1, Min(Len(date_str), ApiDateLimit))
                  /\ Len(fetched.emails[i].date) <= ApiDateLimit
\* three messages listed: one that repeats its headers and has a date longer
\* than 25 characters, one with names in lower case, one without the headers
C22_Witness ==
    /\ fetched.transport = "B" /\ fetched.ok
    /\ count = 3 /\ Len(fetched.emails) = 3
    /\ mailbox[1].names = "repeated" /\ Len(mailbox[1].date.raw) > ApiDateLimit
    /\ fetched.emails[3].date = Text(ApiDateLimit)
    /\ mailbox[2].names = "lower" /\ fetched.emails[2].subject = "plain"
    /\ mailbox[3].subject = "absent" /\ fetched.emails[1].subject = "No Subject"
    /\ fetched.emails[1].date = Unknown

\* the core operations of a run include an exchange of the code / one that failed
Exchanges(c) ==
    \E i \in DOMAIN c.aux : c.aux[i].op = "exchange_code_for_credentials"
ExchangeFailed(c) ==
    \E i \in DOMAIN c.aux :
        c.aux[i].op = "exchange_code_for_credentials" /\ c.aux[i].result = "failure"

\* C23: a code is exchanged at most once.  Only a page load of the browser
\* puts a code into the request parameters; a run of the script that submits
\* the code for exchange starts in a session that is not logged in and ends
\* with the code removed, whether the exchange succeeded or failed; and a
\* failed exchange leaves the session logged out without a credential.  (A
\* step that leaves `expired` alone is a run of the script: the expiry of a
\* token at the provider is the only other step.)
C23_ExchangeOnce ==
    [][/\ (query_code' # NONE /\ query_code' # query_code) => event'.name = "page_load"
       /\ (expired' = expired /\ Exchanges(call')) =>
             /\ ~logged_in /\ query_code # NONE
             /\ query_code' = NONE
             /\ ExchangeFailed(call') => (~logged_in' /\ oauth_credentials' = NoValue)
      ]_vars
\* after a run of the login page whose exchange the provider refused
C23_Witness ==
    /\ ExchangeFailed(call) /\ event.name = "rerun"
    /\ query_code = NONE /\ ~logged_in /\ oauth_credentials = NoValue

=============================================================================
